---------------------------- MODULE Spec2Model ----------------------------
(***************************************************************************)
(* Verification model of the neural_models package (BiologicalNeuralModels).*)
(*                                                                         *)
(* Real numbers are represented in fixed point with two decimals: the      *)
(* integer n stands for n/100 (so -7000 is -70.00 and 30 is 0.30).  The    *)
(* arithmetic of the models (products, quotients, exp) is carried out on   *)
(* that representation; it rounds where IEEE doubles round elsewhere, but  *)
(* it is the same expression tree as in the source.                        *)
(***************************************************************************)
EXTENDS Integers, Sequences, FiniteSets, TLC

VARIABLES lif, rk, ch, izh, ode

vars == <<lif, rk, ch, izh, ode>>

(***************************************************************************)
(* Fixed-point arithmetic                                                  *)
(***************************************************************************)

\* a * b on fixed-point numbers
FMul(a, b) == (a * b) \div 100

\* a / b on fixed-point numbers (b # 0)
FDiv(a, b) == IF b > 0 THEN (a * 100) \div b ELSE ((0 - a) * 100) \div (0 - b)

\* exp(r/100) for 0 <= r < 100, scaled by 10000 (Taylor polynomial of degree 5)
ExpFrac(r) ==
    LET x  == r * 100
        t2 == (x * x) \div 20000
        t3 == (t2 * x) \div 30000
        t4 == (t3 * x) \div 40000
        t5 == (t4 * x) \div 50000
    IN  10000 + x + t2 + t3 + t4 + t5

\* v * e^q for an integer q
RECURSIVE ScaleE(_, _)
ScaleE(v, q) ==
    IF q = 0 THEN v
    ELSE IF q > 0
         THEN ScaleE(IF v > 500000 THEN (v \div 1000) * 2718 ELSE (v * 2718) \div 1000,
                     q - 1)
    ELSE IF v = 0 THEN 0
    ELSE ScaleE((v * 1000) \div 2718, q + 1)

\* np.exp on fixed-point numbers
ExpFix(z) ==
    LET q == z \div 100
        r == z - 100 * q
    IN  (ScaleE(ExpFrac(r), q) + 50) \div 100

\* np.tanh on fixed-point numbers (1.00 to the precision kept beyond |z| = 5)
TanhFix(z) ==
    IF z > 500 THEN 100
    ELSE IF z < -500 THEN -100
    ELSE LET e == ExpFix(2 * z) IN FDiv(e - 100, e + 100)

\* np.cosh on fixed-point numbers
CoshFix(z) == (ExpFix(z) + ExpFix(0 - z)) \div 2

\* len(np.arange(0, stop, step)) for step > 0
ArangeLen(stop, step) == IF stop <= 0 THEN 0 ELSE (stop + step - 1) \div step

\* np.arange(0, n)
ArangeSeq(n) == [i \in 1..n |-> i - 1]

\* np.zeros(n)
Zeros(n) == [i \in 1..n |-> 0]

\* kwargs.get(key, default) on a keyword dictionary (a function on its keys)
Get(kw, key, default) == IF key \in DOMAIN kw THEN kw[key] ELSE default

\* Arrays are objects: a model attribute bound to an array carries the
\* identity of the array next to its contents, and a reference the caller
\* keeps to an array is its identity, the contents seen when the reference was
\* taken, and the contents it shows now.
NoRef == [id |-> 0, seen |-> <<>>, now |-> <<>>]

\* the caller reads an array attribute: a reference to the array bound to it
Ref(id, a) == [id |-> id, seen |-> a, now |-> a]

\* the identity of a newly created array: one that no live array has
Fresh(live) ==
    CHOOSE i \in 1..(Cardinality(live) + 1) :
        i \notin live /\ \A j \in 1..(i - 1) : j \in live

\* what array[i] = v on the array id does to a reference
Store(ref, id, i, v) ==
    IF ref.id = id /\ i \in 1..Len(ref.now) THEN [ref EXCEPT !.now[i] = v] ELSE ref

\* what creating or refilling the array id with contents a does to a reference
Fill(ref, id, a) == IF ref.id = id THEN [ref EXCEPT !.now = a] ELSE ref

\* an object that was not constructed in this behaviour
Absent == [pc |-> "absent"]

(***************************************************************************)
(* LeakyIntegrateAndFire                                                   *)
(***************************************************************************)

\* Inputs of the constructor that the model explores (fixed point).
LifVR     == {-7000}
LifR      == {10000}
LifC      == {30, 0}
LifI      == {30, 60}
LifTheta  == {-5500, -7000}
LifDt     == {500, 1000}
MaxLifT   == 6
LifT      == {0, 250} \cup {1000 * k : k \in 2..MaxLifT}

\* LeakyIntegrateAndFire.__init__
LifInit(VR, R, C, I, theta, dt, t) ==
    [VR |-> VR, R |-> R, C |-> C, I |-> I, theta |-> theta, dt |-> dt, t |-> t,
     V |-> <<>>, hasV |-> FALSE, Vid |-> 0, step |-> 0, idx |-> 0, n |-> 0,
     held |-> NoRef, err |-> "none", pc |-> "idle"]

\* LeakyIntegrateAndFire.tau
LifTau(m) == FMul(m.R, m.C)

\* len(LeakyIntegrateAndFire.tvec)
LifTvecLen(m) == ArangeLen(m.t, m.dt)

\* the closed-form charging curve evaluated in the loop body of run
LifCharge(m, step) ==
    m.VR + FMul(FMul(m.R, m.I), 100 - ExpFix(0 - FDiv(step, LifTau(m))))

\* the reset test of run: if self.V[idx] > self.theta
LifFires(m, v) == v > m.theta

\* a run that refilled the array self.V is already bound to
LifAllocInPlace(m) == IF m.hasV THEN m.Vid ELSE Fresh({m.Vid, m.held.id})

\* run: the array np.zeros(self.tvec.shape) that self.V is bound to is a new
\* object
LifAlloc(m) == Fresh({m.Vid, m.held.id})

\* run: allocation and loop set-up
LifRunStart ==
    /\ lif.pc \in {"idle", "done", "failed"}
    /\ LET id == LifAlloc(lif)
           z  == Zeros(LifTvecLen(lif))
       IN  lif' = [lif EXCEPT !.V = z, !.Vid = id, !.hasV = TRUE,
                              !.held = Fill(lif.held, id, z),
                              !.step = 0, !.idx = 0, !.n = LifTvecLen(lif),
                              !.err = "none", !.pc = "loop"]
    /\ UNCHANGED <<rk, ch, izh, ode>>

\* run: one iteration of the for loop (idx is 0-based in the source); the
\* division -step/self.tau raises ZeroDivisionError when tau is 0
LifRunStep ==
    /\ lif.pc = "loop"
    /\ lif.idx < lif.n
    /\ IF LifTau(lif) = 0
       THEN lif' = [lif EXCEPT !.err = "ZeroDivisionError", !.pc = "failed"]
       ELSE LET v == LifCharge(lif, lif.step)
            IN  lif' = [lif EXCEPT !.V[lif.idx + 1] = v,
                                   !.held = Store(lif.held, lif.Vid, lif.idx + 1, v),
                                   !.step = IF LifFires(lif, v) THEN 0
                                            ELSE lif.step + lif.dt,
                                   !.idx = lif.idx + 1]
    /\ UNCHANGED <<rk, ch, izh, ode>>

\* run: the loop is exhausted
LifRunEnd ==
    /\ lif.pc = "loop"
    /\ lif.idx = lif.n
    /\ lif' = [lif EXCEPT !.pc = "done"]
    /\ UNCHANGED <<rk, ch, izh, ode>>

InitLIF ==
    /\ ode = Absent
    /\ izh = Absent
    /\ rk = Absent
    /\ ch = Absent
    /\ \E VR \in LifVR, R \in LifR, C \in LifC, I \in LifI,
       theta \in LifTheta, dt \in LifDt, t \in LifT :
        lif = LifInit(VR, R, C, I, theta, dt, t)

\* the caller assigns the horizon attribute (model.t = v) between runs
LifSetT ==
    /\ lif.pc = "done"
    /\ \E v \in LifT : v # lif.t /\ lif' = [lif EXCEPT !.t = v]
    /\ UNCHANGED <<rk, ch, izh, ode>>

\* the caller assigns the step attribute (model.dt = v) between runs
LifSetDt ==
    /\ lif.pc = "done"
    /\ \E v \in LifDt : v # lif.dt /\ lif' = [lif EXCEPT !.dt = v]
    /\ UNCHANGED <<rk, ch, izh, ode>>

\* between runs the caller keeps a reference to the voltage series
\* (v = model.V)
LifKeep ==
    /\ lif.pc = "done"
    /\ lif.held.id # lif.Vid
    /\ lif' = [lif EXCEPT !.held = Ref(lif.Vid, lif.V)]
    /\ UNCHANGED <<rk, ch, izh, ode>>

NextLIF == LifRunStart \/ LifRunStep \/ LifRunEnd \/ LifSetT \/ LifSetDt

SpecLIF == InitLIF /\ [][NextLIF]_vars

(***************************************************************************)
(* RulkovMap and ChialvoMap                                                *)
(***************************************************************************)

\* horizons explored: 0..MaxMapTime and the default of both maps
MaxMapTime  == 3
DefaultTime == 100
MapTimes    == (0..MaxMapTime) \cup {DefaultTime}

\* keyword dictionaries passed to RulkovMap(**kwargs)
RkKwargs ==
    {[k \in {"time"} |-> t] : t \in MapTimes}
    \cup {[k \in {"time", "x0"} |-> IF k = "time" THEN t ELSE -100] : t \in MapTimes}
    \cup {[k \in {"time", "y0"} |-> IF k = "time" THEN t ELSE 50] : t \in MapTimes}

\* RulkovMap.__init__ (the attribute assignments)
RkInit(kw) ==
    [alpha |-> Get(kw, "alpha", 600), mu |-> Get(kw, "mu", 10),
     sigma |-> Get(kw, "sigma", 30),  time |-> Get(kw, "time", DefaultTime),
     x0 |-> Get(kw, "x0", 0),         y0 |-> Get(kw, "x0", 0),
     x |-> <<>>, y |-> <<>>, hasXY |-> FALSE, t |-> 0, kw |-> kw,
     err |-> "none", pc |-> "idle"]

\* RulkovMap.check_parameters, which __init__ calls last: every attribute set
\* from the keywords is a number
RkCheckParameters(m) ==
    \A k \in {"alpha", "mu", "sigma", "time", "x0", "y0"} : m[k] \in Int

\* len(RulkovMap.tvec): np.arange(0, self.time, 1)
RkTvecLen(m) == IF m.time <= 0 THEN 0 ELSE m.time

\* the piecewise rule for x in the loop body of RulkovMap.run (on numbers the
\* three branches are exhaustive)
RkNextX(m, px, py) ==
    IF px <= 0 THEN FDiv(m.alpha, 100 - px) + py
    ELSE IF 0 < px /\ px < m.alpha + py THEN m.alpha + py
    ELSE -100

\* the rule for y in the loop body of RulkovMap.run
RkNextY(m, px, py) == py - FMul(m.mu, px + 100) + FMul(m.mu, m.sigma)

\* last index (exclusive) of the for loop of RulkovMap.run
RkLoopStop(m) == m.time - 1

\* RulkovMap.run: allocation, sample 0, loop set-up; on empty arrays
\* self.x[0] = self.x0 raises IndexError, after self.x and self.y were replaced
RkRunStart ==
    /\ rk.pc \in {"idle", "done", "failed"}
    /\ IF RkTvecLen(rk) >= 1
       THEN rk' = [rk EXCEPT !.x = [Zeros(RkTvecLen(rk)) EXCEPT ![1] = rk.x0],
                            !.y = [Zeros(RkTvecLen(rk)) EXCEPT ![1] = rk.y0],
                            !.hasXY = TRUE, !.t = 1, !.err = "none", !.pc = "loop"]
       ELSE rk' = [rk EXCEPT !.x = <<>>, !.y = <<>>, !.hasXY = TRUE,
                            !.err = "IndexError", !.pc = "failed"]
    /\ UNCHANGED <<lif, ch, izh, ode>>

\* RulkovMap.run: one iteration of the for loop (t is 0-based in the source)
RkRunStep ==
    /\ rk.pc = "loop"
    /\ rk.t < RkLoopStop(rk)
    /\ LET px == rk.x[rk.t]
           py == rk.y[rk.t]
       IN  rk' = [rk EXCEPT !.x[rk.t + 1] = RkNextX(rk, px, py),
                            !.y[rk.t + 1] = RkNextY(rk, px, py),
                            !.t = rk.t + 1]
    /\ UNCHANGED <<lif, ch, izh, ode>>

\* RulkovMap.run: the loop is exhausted
RkRunEnd ==
    /\ rk.pc = "loop"
    /\ rk.t >= RkLoopStop(rk)
    /\ rk' = [rk EXCEPT !.pc = "done"]
    /\ UNCHANGED <<lif, ch, izh, ode>>

\* the caller assigns the horizon attribute (model.time = v) between runs
RkSetTime ==
    /\ rk.pc \in {"done", "failed"}
    /\ \E v \in MapTimes : v # rk.time /\ rk' = [rk EXCEPT !.time = v]
    /\ UNCHANGED <<lif, ch, izh, ode>>

\* constructor arguments of ChialvoMap explored (a, b, c, k are required)
ChArgs == {[a |-> 89, b |-> 60, c |-> 28, k |-> 3, x0 |-> 0, y0 |-> 0],
           [a |-> 89, b |-> 18, c |-> 28, k |-> 3, x0 |-> 0, y0 |-> 0]}

\* ChialvoMap.__init__
ChInit(p) ==
    [a |-> p.a, b |-> p.b, c |-> p.c, k |-> p.k, x0 |-> p.x0, y0 |-> p.y0,
     t |-> 0, hasT |-> FALSE, tvecLen |-> 0, hasTvec |-> FALSE,
     x |-> <<>>, y |-> <<>>, hasXY |-> FALSE, i |-> 0, X0 |-> <<>>,
     tid |-> 0, xid |-> 0, yid |-> 0,
     held |-> [tvec |-> NoRef, x |-> NoRef, y |-> NoRef],
     prev |-> <<>>, err |-> "none", pc |-> "idle"]

\* what a ChialvoMap object stores of a run: the time grid and the state series
ChStored(m) == [tvecLen |-> m.tvecLen, hasTvec |-> m.hasTvec,
                x |-> m.x, y |-> m.y, hasXY |-> m.hasXY]

\* horizons passed to ChialvoMap.run
ChTimes == 0..MaxMapTime

\* initial states passed to ChialvoMap.run; <<0, 0>> is the default
ChX0s == {<<0, 0>>, <<50, 20>>, <<50>>, <<50, 20, 10>>}

\* len(np.arange(0, self.t + 1))
ChTvecLen(t) == IF t + 1 <= 0 THEN 0 ELSE t + 1

\* the rule for x in the loop body of ChialvoMap.run
ChNextX(m, px, py) == FMul(FMul(px, px), ExpFix(py - px)) + m.k

\* the rule for y in the loop body of ChialvoMap.run
ChNextY(m, px, py) == FMul(m.a, py) - FMul(m.b, px) + m.c

\* last index (exclusive) of the for loop of ChialvoMap.run
ChLoopStop(m) == m.t - 1

\* identities of the arrays alive when ChialvoMap.run is entered
ChLive(m) == {m.tid, m.xid, m.yid, m.held.tvec.id, m.held.x.id, m.held.y.id}

\* ChialvoMap.run: np.arange(0, self.t + 1) and the two np.zeros(...) are new
\* objects (identities of tvec, x, y)
ChAlloc(m) ==
    LET t == Fresh(ChLive(m))
        x == Fresh(ChLive(m) \cup {t})
        y == Fresh(ChLive(m) \cup {t, x})
    IN  [tvec |-> t, x |-> x, y |-> y]

\* ChialvoMap.run: self.t, self.tvec, the allocation and sample 0; X0[0] or
\* X0[1] raises IndexError when X0 is too short, after the earlier
\* assignments have taken effect
ChRunStart ==
    /\ ch.pc \in {"idle", "done", "failed"}
    /\ \E X0 \in ChX0s, t \in ChTimes :
        LET n  == ChTvecLen(t)
            x1 == IF Len(X0) >= 1 THEN [Zeros(n) EXCEPT ![1] = X0[1]] ELSE Zeros(n)
            y1 == IF Len(X0) >= 2 THEN [Zeros(n) EXCEPT ![1] = X0[2]] ELSE Zeros(n)
            ok == Len(X0) >= 2
            id == ChAlloc(ch)
        IN  ch' = [ch EXCEPT !.t = t, !.hasT = TRUE, !.tvecLen = n, !.hasTvec = TRUE,
                             !.x = x1, !.y = y1, !.hasXY = TRUE, !.i = 0, !.X0 = X0,
                             !.tid = id.tvec, !.xid = id.x, !.yid = id.y,
                             !.held = [tvec |-> Fill(ch.held.tvec, id.tvec, ArangeSeq(n)),
                                       x |-> Fill(ch.held.x, id.x, x1),
                                       y |-> Fill(ch.held.y, id.y, y1)],
                             !.prev = <<ChStored(ch)>>,
                             !.err = IF ok THEN "none" ELSE "IndexError",
                             !.pc = IF ok THEN "loop" ELSE "failed"]
    /\ UNCHANGED <<lif, rk, izh, ode>>

\* ChialvoMap.run: one iteration of the for loop
ChRunStep ==
    /\ ch.pc = "loop"
    /\ ch.i < ChLoopStop(ch)
    /\ LET px == ch.x[ch.i + 1]
           py == ch.y[ch.i + 1]
           nx == ChNextX(ch, px, py)
           ny == ChNextY(ch, px, py)
       IN  ch' = [ch EXCEPT !.x[ch.i + 2] = nx,
                            !.y[ch.i + 2] = ny,
                            !.held.x = Store(ch.held.x, ch.xid, ch.i + 2, nx),
                            !.held.y = Store(ch.held.y, ch.yid, ch.i + 2, ny),
                            !.i = ch.i + 1]
    /\ UNCHANGED <<lif, rk, izh, ode>>

\* ChialvoMap.run: the loop is exhausted
ChRunEnd ==
    /\ ch.pc = "loop"
    /\ ch.i >= ChLoopStop(ch)
    /\ ch' = [ch EXCEPT !.pc = "done"]
    /\ UNCHANGED <<lif, rk, izh, ode>>

\* between runs the caller keeps references to the time grid and the two
\* state series (tv, x, y = model.tvec, model.x, model.y)
ChKeep ==
    /\ ch.pc = "done"
    /\ ch.held.x.id # ch.xid
    /\ ch' = [ch EXCEPT !.held = [tvec |-> Ref(ch.tid, ArangeSeq(ch.tvecLen)),
                                  x |-> Ref(ch.xid, ch.x),
                                  y |-> Ref(ch.yid, ch.y)]]
    /\ UNCHANGED <<lif, rk, izh, ode>>

\* one map object per behaviour
InitMaps ==
    /\ ode = Absent
    /\ lif = Absent
    /\ izh = Absent
    /\ \/ (\E kw \in RkKwargs : rk = RkInit(kw) /\ RkCheckParameters(rk)) /\ ch = Absent
       \/ rk = Absent /\ (\E p \in ChArgs : ch = ChInit(p))

NextMaps ==
    \/ RkRunStart \/ RkRunStep \/ RkRunEnd \/ RkSetTime
    \/ ChRunStart \/ ChRunStep \/ ChRunEnd

SpecMaps == InitMaps /\ [][NextMaps]_vars

(***************************************************************************)
(* Izhikevich                                                              *)
(*                                                                         *)
(* run hands _systems_equations to scipy's solve_ivp (explicit Runge-Kutta *)
(* with the first-same-as-last property, max_step = 0.1).  The solver is   *)
(* modelled by what it does with the callback: the intermediate stages are *)
(* evaluated on temporary arrays y + dy; the last stage is evaluated on    *)
(* the candidate array y_new, the very array that becomes the solver's     *)
(* state and the stored sample when the step is accepted; the error        *)
(* control accepts or rejects the step; a rejected candidate is dropped.   *)
(* One intermediate stage stands for the stages of the method, and the     *)
(* step size and the verdict of the error control are chosen               *)
(* nondeterministically.                                                   *)
(***************************************************************************)

\* threshold tested by _systems_equations (30, fixed point)
IzhThreshold == 3000

\* max_step handed to solve_ivp (0.1, fixed point)
IzhMaxStep == 10

\* step sizes the solver may choose (time in fixed point)
IzhSteps == {IzhMaxStep \div 2, IzhMaxStep}

\* horizons explored: multiples of max_step
MaxIzhT == 3
IzhTs   == {IzhMaxStep * k : k \in 1..MaxIzhT}

\* constructor arguments explored: regular spiking and chattering neurons
IzhArgs == {[a |-> 2, b |-> 20, c |-> -6500, d |-> 800],
            [a |-> 2, b |-> 20, c |-> -5000, d |-> 200]}

\* initial states explored (lists); two have the wrong length
IzhY0s == {<<-6500, 0>>, <<2500, 0>>, <<3500, 0>>, <<3500>>, <<2500, 0, 0>>}

IzhCurrents == {1000}

\* no callback invocation recorded
NoCalls == <<>>

\* Izhikevich.__init__
IzhInit(p) ==
    [a |-> p.a, b |-> p.b, c |-> p.c, d |-> p.d,
     tvec |-> <<>>, V |-> <<>>, U |-> <<>>, hasOut |-> FALSE,
     current |-> 0, tb |-> 0, st |-> 0, sy |-> <<>>, sf |-> <<>>,
     ts |-> <<>>, ys |-> <<>>, calls |-> NoCalls, Y0 |-> <<>>, prev |-> <<>>,
     err |-> "none", pc |-> "idle"]

\* what an Izhikevich object stores of a run
IzhStored(m) == [tvec |-> m.tvec, V |-> m.V, U |-> m.U, hasOut |-> m.hasOut]

\* Izhikevich._systems_equations on a two-component array X: the array as the
\* call leaves it (X) and the list returned (out)
IzhSystemsEquations(m, X, current) ==
    LET X1 == IF X[1] >= IzhThreshold
              THEN <<m.c, X[2] + m.d>>
              ELSE X
    IN  [X   |-> X1,
         out |-> <<FMul(4, FMul(X1[1], X1[1])) + FMul(500, X1[1]) + 14000
                       - X1[2] + current,
                   FMul(m.a, FMul(m.b, X1[1]) - X1[2])>>]

\* y + h * k on two-component arrays
Axpy(y, h, k) == <<y[1] + FMul(h, k[1]), y[2] + FMul(h, k[2])>>

\* the record of one invocation of the callback by the solver
IzhCall(kind, accepted, X, e) ==
    [kind |-> kind, accepted |-> accepted, before |-> X, after |-> e.X,
     reset |-> X[1] >= IzhThreshold]

\* run: solve_ivp is entered with a list of the right length.  The solver
\* copies the list into its state array, evaluates the callback on that state
\* array, and once on a temporary to choose the first step; sample 0 is the
\* list as passed.
IzhRunStart ==
    /\ izh.pc \in {"idle", "done", "failed"}
    /\ \E t \in IzhTs, current \in IzhCurrents, Y0 \in IzhY0s :
        /\ Len(Y0) = 2
        /\ LET e0 == IzhSystemsEquations(izh, Y0, current)
               y1 == Axpy(e0.X, 1, e0.out)
               e1 == IzhSystemsEquations(izh, y1, current)
           IN  izh' = [izh EXCEPT !.current = current, !.tb = t, !.st = 0,
                                  !.sy = e0.X, !.sf = e0.out,
                                  !.ts = <<0>>, !.ys = <<Y0>>,
                                  !.calls = <<IzhCall("state", TRUE, Y0, e0),
                                              IzhCall("trial", FALSE, y1, e1)>>,
                                  !.Y0 = Y0, !.prev = <<IzhStored(izh)>>,
                                  !.err = "none", !.pc = "solve"]
    /\ UNCHANGED <<lif, rk, ch, ode>>

\* run with a list of the wrong length: X[1] raises IndexError in the callback
\* for a shorter list; for a longer one the solver fails on the shape of the
\* value returned (ValueError).  Nothing is assigned to the model.
IzhRunBadY0 ==
    /\ izh.pc \in {"idle", "done", "failed"}
    /\ \E Y0 \in IzhY0s :
        /\ Len(Y0) # 2
        /\ izh' = [izh EXCEPT !.calls = NoCalls, !.Y0 = Y0,
                              !.prev = <<IzhStored(izh)>>,
                              !.err = IF Len(Y0) < 2 THEN "IndexError" ELSE "ValueError",
                              !.pc = "failed"]
    /\ UNCHANGED <<lif, rk, ch, ode>>

\* one attempted step of the solver
IzhSolverStep ==
    /\ izh.pc = "solve"
    /\ izh.st < izh.tb
    /\ \E hh \in IzhSteps, accept \in BOOLEAN :
        LET h     == IF izh.st + hh > izh.tb THEN izh.tb - izh.st ELSE hh
            trial == Axpy(izh.sy, h, izh.sf)
            e1    == IzhSystemsEquations(izh, trial, izh.current)
            ynew  == <<izh.sy[1] + FMul(h, (izh.sf[1] + e1.out[1]) \div 2),
                       izh.sy[2] + FMul(h, (izh.sf[2] + e1.out[2]) \div 2)>>
            e2    == IzhSystemsEquations(izh, ynew, izh.current)
            calls == <<IzhCall("trial", FALSE, trial, e1),
                       IzhCall("candidate", accept, ynew, e2)>>
        IN  IF accept
            THEN izh' = [izh EXCEPT !.st = izh.st + h, !.sy = e2.X, !.sf = e2.out,
                                    !.ts = Append(izh.ts, izh.st + h),
                                    !.ys = Append(izh.ys, e2.X),
                                    !.calls = calls]
            ELSE izh' = [izh EXCEPT !.calls = calls]
    /\ UNCHANGED <<lif, rk, ch, ode>>

\* run: solve_ivp returns at t_bound and the samples are stored on the model
IzhRunEnd ==
    /\ izh.pc = "solve"
    /\ izh.st >= izh.tb
    /\ izh' = [izh EXCEPT !.tvec = izh.ts,
                          !.V = [k \in 1..Len(izh.ys) |-> izh.ys[k][1]],
                          !.U = [k \in 1..Len(izh.ys) |-> izh.ys[k][2]],
                          !.hasOut = TRUE, !.calls = NoCalls, !.pc = "done"]
    /\ UNCHANGED <<lif, rk, ch, ode>>

InitIzh ==
    /\ ode = Absent
    /\ lif = Absent
    /\ rk = Absent
    /\ ch = Absent
    /\ \E p \in IzhArgs : izh = IzhInit(p)

NextIzh == IzhRunStart \/ IzhRunBadY0 \/ IzhSolverStep \/ IzhRunEnd

SpecIzh == InitIzh /\ [][NextIzh]_vars

(***************************************************************************)
(* HindmarshRose, HodgkinHuxley, MorrisLecar, FitzHughNagumo               *)
(*                                                                         *)
(* These run methods hand system_equations to scipy's odeint with the time *)
(* grid tvec.  odeint returns one row per grid point, row 0 being the      *)
(* initial state, as a function of the callback, the initial state, the    *)
(* grid and the extra arguments only.  It is modelled by the explicit      *)
(* Euler recurrence on the grid.                                           *)
(***************************************************************************)

\* an optional argument is a sequence: empty when omitted (None), else <<value>>
None == <<>>

\* steps and horizons explored (fixed point)
OdeDts   == {10, 20}
MaxOdeT  == 2
OdeTimes == {20 * k : k \in 1..MaxOdeT}

\* drives passed to run
OdeDrives == {None, <<500>>}

\* run calls recorded per behaviour
MaxRuns == 3

\* keyword dictionaries passed to the constructors: the horizon under the
\* keyword the class reads it from, the step
OdeKwargs(timeKey) ==
    {[k \in {timeKey, "dt"} |-> IF k = "dt" THEN dt ELSE t] : t \in OdeTimes, dt \in OdeDts}

\* the time grid np.arange(0, stop, step) as (length, spacing)
Arange(stop, step) == [has |-> TRUE, len |-> ArangeLen(stop, step), step |-> step]

\* a tvec attribute that was never assigned
NoTvec == [has |-> FALSE, len |-> 0, step |-> 0]

\* the fields shared by the four objects: parameters p, a stored tvec (where
\* the class stores one), the stored state series (one row per grid point),
\* and the record of the run calls made
OdeObj(kind, p, tvec) ==
    [kind |-> kind, p |-> p, tvec |-> tvec, out |-> <<>>, hasOut |-> FALSE,
     err |-> "none", log |-> <<>>, reassigned |-> FALSE, eval |-> <<>>,
     pc |-> "idle"]

\* HindmarshRose.__init__
HRInit(kw) ==
    OdeObj("HR",
           [current |-> Get(kw, "current", 100), a |-> Get(kw, "a", 50),
            b |-> Get(kw, "b", 50), c |-> Get(kw, "c", 50), d |-> Get(kw, "d", 50),
            r |-> Get(kw, "r", 100), s |-> Get(kw, "s", 100), x1 |-> Get(kw, "x1", -100),
            dt |-> Get(kw, "dt", 1), time |-> Get(kw, "time", 10000)],
           NoTvec)

\* HodgkinHuxley.__init__
HHInit(kw) ==
    LET p == [C |-> Get(kw, "C", 100), I |-> Get(kw, "I", 100),
              VNa |-> Get(kw, "VNa", 5000), VK |-> Get(kw, "VK", -7700),
              VL |-> Get(kw, "VL", -5440), gNa |-> Get(kw, "gNa", 12000),
              gK |-> Get(kw, "gK", 3600), gL |-> Get(kw, "gL", 30),
              dt |-> Get(kw, "dt", 1), t |-> Get(kw, "t", 10000)]
    IN  OdeObj("HH", p, Arange(p.t, p.dt))

\* MorrisLecar.check_parameters: every attribute is an int or a float
MLCheckParameters(m) == \A k \in DOMAIN m.p : m.p[k] \in Int

\* MorrisLecar.__init__ (the attribute assignments; check_parameters is called
\* last)
MLInit(kw) ==
    OdeObj("ML",
           [C |-> Get(kw, "C", 2000), I |-> Get(kw, "I", 100),
            VL |-> Get(kw, "VL", -6000), VCa |-> Get(kw, "VCa", 12000),
            VK |-> Get(kw, "VK", -8400), gL |-> Get(kw, "gL", 200),
            gCa |-> Get(kw, "gCa", 400), gK |-> Get(kw, "gK", 800),
            V1 |-> Get(kw, "V1", -120), V2 |-> Get(kw, "V2", 1800),
            V3 |-> Get(kw, "V3", 1200), V4 |-> Get(kw, "V4", 1740),
            phi |-> Get(kw, "phi", 6), dt |-> Get(kw, "dt", 1),
            time |-> Get(kw, "time", 10000)],
           NoTvec)

\* FitzHughNagumo.__init__
FHNInit(kw) ==
    OdeObj("FHN",
           [a |-> Get(kw, "a", -70), b |-> Get(kw, "b", 80), I |-> Get(kw, "I", 50),
            phi |-> Get(kw, "phi", 1250), dt |-> Get(kw, "dt", 1),
            t |-> Get(kw, "t", 10000)],
           NoTvec)

\* x ** 2, x ** 3, x ** 4
Sq(x)   == FMul(x, x)
Cube(x) == FMul(Sq(x), x)
Pow4(x) == FMul(Cube(x), x)

\* HindmarshRose.system_equations
HRSystemEquations(m, X, current) ==
    <<X[2] - FMul(m.p.a, Cube(X[1])) + FMul(m.p.b, Sq(X[1])) - X[3] + current,
      m.p.c - FMul(m.p.d, Sq(X[1])) - X[2],
      FMul(m.p.r, FMul(m.p.s, X[1] - m.p.x1) - X[3])>>

\* the divisor 1 - np.exp(-(X[0] + 40) / 10) of the second component of
\* HodgkinHuxley.system_equations
HHDenM(X) == 100 - ExpFix(FDiv(0 - (X[1] + 4000), 1000))

\* the divisor 1 - np.exp(-(X[0] + 55) / 10) of its third component
HHDenN(X) == 100 - ExpFix(FDiv(0 - (X[1] + 5500), 1000))

\* components of HodgkinHuxley.system_equations(X, t, I) that are nan or inf:
\* the divisions are numpy float divisions, which return nan for 0/0 and inf
\* for x/0 (with a RuntimeWarning) and raise nothing
HHNonFinite(X) ==
    {j \in {2} : HHDenM(X) = 0} \cup {j \in {3} : HHDenN(X) = 0}

\* HodgkinHuxley.system_equations (the slot of a component listed by
\* HHNonFinite holds 0)
HHSystemEquations(m, X, I) ==
    <<FMul(FDiv(100, m.p.C),
           FMul(FMul(FMul(0 - m.p.gNa, Cube(X[2])), X[4]), X[1] - m.p.VNa)
           - FMul(FMul(m.p.gK, Pow4(X[3])), X[1] - m.p.VK)
           - FMul(m.p.gL, X[1] - m.p.VL) + I),
      IF HHDenM(X) = 0 THEN 0
      ELSE FMul(FDiv(FMul(10, X[1] + 4000), HHDenM(X)), 100 - X[2])
             - FMul(FMul(400, ExpFix(FDiv(0 - (X[1] + 6500), 1800))), X[2]),
      IF HHDenN(X) = 0 THEN 0
      ELSE FMul(FDiv(FMul(1, X[1] + 5500), HHDenN(X)), 100 - X[3])
             - FMul(FMul(12, ExpFix(FDiv(0 - (X[1] + 6500), 8000))), X[3]),
      FMul(FMul(7, ExpFix(FDiv(0 - (X[1] + 6500), 2000))), 100 - X[4])
        - FMul(FDiv(100, 100 + ExpFix(FDiv(0 - (X[1] + 3500), 1000))), X[4])>>

\* MorrisLecar.system_equations
MLSystemEquations(m, X, I) ==
    LET Mss == (100 + TanhFix(FDiv(X[1] - m.p.V1, m.p.V2))) \div 2
        Nss == (100 + TanhFix(FDiv(X[1] - m.p.V3, m.p.V4))) \div 2
        tau == FMul(FDiv(100, m.p.phi), CoshFix(FDiv(X[1] - m.p.V3, 2 * m.p.V4)))
    IN  <<FMul(FDiv(100, m.p.C),
               I - FMul(m.p.gL, X[1] - m.p.VL)
                 - FMul(FMul(m.p.gCa, Mss), X[1] - m.p.VCa)
                 - FMul(FMul(m.p.gK, X[2]), X[1] - m.p.VK)),
          FDiv(Nss - X[2], tau)>>

\* FitzHughNagumo.system_equations (reads the drive from self.I)
FHNSystemEquations(m, X) ==
    <<X[1] - FDiv(Cube(X[1]), 300) - X[2] + m.p.I,
      FMul(m.p.phi, X[1] + m.p.a - FMul(m.p.b, X[2]))>>

\* the callback odeint is given, with its extra argument
OdeF(m, X, drive) ==
    CASE m.kind = "HR"  -> HRSystemEquations(m, X, drive)
      [] m.kind = "HH"  -> HHSystemEquations(m, X, drive)
      [] m.kind = "ML"  -> MLSystemEquations(m, X, drive)
      [] m.kind = "FHN" -> FHNSystemEquations(m, X)

\* rows of odeint's result from state X on, n grid points h apart
RECURSIVE OdeintFrom(_, _, _, _, _)
OdeintFrom(m, X, n, h, drive) ==
    IF n = 0 THEN <<>>
    ELSE LET k == OdeF(m, X, drive)
         IN  <<X>> \o OdeintFrom(m, [i \in 1..Len(X) |-> X[i] + FMul(h, k[i])],
                                 n - 1, h, drive)

\* odeint(system_equations, X0, tvec, args)
Odeint(m, X0, tvec, drive) == OdeintFrom(m, X0, tvec.len, tvec.step, drive)

\* how odeint ends for an initial state of length n and a callback written for
\* dim components: the callback's X[k] raises IndexError on a shorter state,
\* odeint rejects the length of the value returned for a longer one
OdeintError(n, dim) ==
    IF n < dim THEN "IndexError" ELSE IF n > dim THEN "RuntimeError" ELSE "none"

\* initial states passed to run, per dimensionality
OdeX0s(dim) ==
    {[i \in 1..dim |-> 0], [i \in 1..(dim - 1) |-> 0], [i \in 1..(dim + 1) |-> 0]}

\* the record of one run call
RunEntry(args, before, after) ==
    [args |-> args, pBefore |-> before.p, pAfter |-> after.p,
     err |-> after.err, out |-> after.out, hasOut |-> after.hasOut,
     outBefore |-> before.out, hadOut |-> before.hasOut]

\* obj after a run call that took it from before to after
Logged(args, before, after) ==
    [after EXCEPT !.log = Append(before.log, RunEntry(args, before, after))]

\* HindmarshRose.tvec
HRTvec(m) == Arange(m.p.time, m.p.dt)

\* HindmarshRose.run
HRRun ==
    /\ ode.pc = "idle"
    /\ ode.kind = "HR"
    /\ Len(ode.log) < MaxRuns
    /\ \E X0 \in OdeX0s(3), current \in OdeDrives :
        LET m1  == IF current = None THEN ode
                   ELSE [ode EXCEPT !.p.current = current[1]]
            cur == IF current = None THEN ode.p.current ELSE current[1]
            e   == OdeintError(Len(X0), 3)
            m2  == IF e = "none"
                   THEN [m1 EXCEPT !.out = Odeint(m1, X0, HRTvec(m1), cur),
                                   !.hasOut = TRUE, !.err = "none"]
                   ELSE [m1 EXCEPT !.err = e]
        IN  ode' = Logged(<<X0, current>>, ode, m2)
    /\ UNCHANGED <<lif, rk, ch, izh>>

\* HodgkinHuxley.run (tvec is the attribute computed by __init__)
HHRun ==
    /\ ode.pc = "idle"
    /\ ode.kind = "HH"
    /\ Len(ode.log) < MaxRuns
    /\ \E X0 \in OdeX0s(4), I \in OdeDrives :
        LET m1  == IF I = None THEN ode ELSE [ode EXCEPT !.p.I = I[1]]
            cur == IF I = None THEN ode.p.I ELSE I[1]
            e   == OdeintError(Len(X0), 4)
            m2  == IF e = "none"
                   THEN [m1 EXCEPT !.out = Odeint(m1, X0, m1.tvec, cur),
                                   !.hasOut = TRUE, !.err = "none"]
                   ELSE [m1 EXCEPT !.err = e]
        IN  ode' = Logged(<<X0, I>>, ode, m2)
    /\ UNCHANGED <<lif, rk, ch, izh>>

\* states on which the caller evaluates HodgkinHuxley.system_equations
\* directly (V, m, n, h): rest, and the two voltages at which a gate rate has
\* a removable singularity
HHStates == {<<-6500, 5, 32, 60>>, <<-4000, 5, 32, 60>>, <<-5500, 5, 32, 60>>}

\* a direct call model.system_equations(X, 0, model.I)
HHEvaluate ==
    /\ ode.pc = "idle"
    /\ ode.kind = "HH"
    /\ ode.eval = <<>>
    /\ \E X \in HHStates :
        ode' = [ode EXCEPT !.eval = <<[X |-> X,
                                       out |-> HHSystemEquations(ode, X, ode.p.I),
                                       nonfinite |-> HHNonFinite(X)]>>]
    /\ UNCHANGED <<lif, rk, ch, izh>>

\* MorrisLecar.tvec
MLTvec(m) == Arange(m.p.time, m.p.dt)

\* MorrisLecar.run
MLRun ==
    /\ ode.pc = "idle"
    /\ ode.kind = "ML"
    /\ Len(ode.log) < MaxRuns
    /\ \E X0 \in OdeX0s(2), I \in OdeDrives :
        LET m1  == IF I = None THEN ode ELSE [ode EXCEPT !.p.I = I[1]]
            cur == IF I = None THEN ode.p.I ELSE I[1]
            e   == OdeintError(Len(X0), 2)
            m2  == IF e = "none"
                   THEN [m1 EXCEPT !.out = Odeint(m1, X0, MLTvec(m1), cur),
                                   !.hasOut = TRUE, !.err = "none"]
                   ELSE [m1 EXCEPT !.err = e]
        IN  ode' = Logged(<<X0, I>>, ode, m2)
    /\ UNCHANGED <<lif, rk, ch, izh>>

\* FitzHughNagumo.run (no arguments; tvec is assigned by run)
FHNRun ==
    /\ ode.pc = "idle"
    /\ ode.kind = "FHN"
    /\ Len(ode.log) < MaxRuns
    /\ LET m1 == [ode EXCEPT !.tvec = Arange(ode.p.t, ode.p.dt)]
           m2 == [m1 EXCEPT !.out = Odeint(m1, <<0, 0>>, m1.tvec, 0),
                            !.hasOut = TRUE, !.err = "none"]
       IN  ode' = Logged(<<>>, ode, m2)
    /\ UNCHANGED <<lif, rk, ch, izh>>

\* the attribute holding the horizon
TimeAttr(m) == IF m.kind \in {"HR", "ML"} THEN "time" ELSE "t"

\* the caller assigns the horizon attribute (model.time = v, model.t = v)
OdeSetTime ==
    /\ ode.pc = "idle"
    /\ ode.hasOut
    /\ \E v \in OdeTimes :
        /\ v # ode.p[TimeAttr(ode)]
        /\ ode' = [ode EXCEPT !.p[TimeAttr(ode)] = v, !.reassigned = TRUE]
    /\ UNCHANGED <<lif, rk, ch, izh>>

\* the caller assigns the step attribute (model.dt = v)
OdeSetDt ==
    /\ ode.pc = "idle"
    /\ ode.hasOut
    /\ \E v \in OdeDts :
        /\ v # ode.p.dt
        /\ ode' = [ode EXCEPT !.p.dt = v, !.reassigned = TRUE]
    /\ UNCHANGED <<lif, rk, ch, izh>>

\* the time grid a reader of model.tvec gets
OdeTvec(m) ==
    CASE m.kind = "HR" -> HRTvec(m)
      [] m.kind = "ML" -> MLTvec(m)
      [] OTHER         -> m.tvec

\* the j-th stored state series (self.x, self.y, ...; self.V, self.m, ...)
OdeSeries(m, j) == [k \in 1..Len(m.out) |-> m.out[k][j]]

\* number of state series the class stores
OdeDim(m) ==
    CASE m.kind = "HR" -> 3 [] m.kind = "HH" -> 4 [] OTHER -> 2

InitOde ==
    /\ lif = Absent
    /\ rk = Absent
    /\ ch = Absent
    /\ izh = Absent
    /\ \/ \E kw \in OdeKwargs("time") : ode = HRInit(kw)
       \/ \E kw \in OdeKwargs("t")    : ode = HHInit(kw)
       \/ \E kw \in OdeKwargs("time") : ode = MLInit(kw) /\ MLCheckParameters(ode)
       \/ \E kw \in OdeKwargs("t")    : ode = FHNInit(kw)

NextOde ==
    HRRun \/ HHRun \/ HHEvaluate \/ MLRun \/ FHNRun \/ OdeSetTime \/ OdeSetDt

SpecOde == InitOde /\ [][NextOde]_vars


(***************************************************************************)
(* Any one of the objects                                                  *)
(***************************************************************************)

InitAll == InitLIF \/ InitMaps \/ InitIzh \/ InitOde

NextAll == NextLIF \/ NextMaps \/ NextIzh \/ NextOde

SpecAll == InitAll /\ [][NextAll]_vars

(***************************************************************************)
(* Runs of one object whose caller keeps references to the stored arrays   *)
(***************************************************************************)

InitKeep ==
    /\ ode = Absent
    /\ izh = Absent
    /\ rk = Absent
    /\ \/ ch = Absent /\ \E VR \in LifVR, R \in LifR, C \in LifC, I \in LifI,
                           theta \in LifTheta, dt \in LifDt, t \in LifT :
                            lif = LifInit(VR, R, C, I, theta, dt, t)
       \/ lif = Absent /\ \E p \in ChArgs : ch = ChInit(p)

NextKeep ==
    \/ LifRunStart \/ LifRunStep \/ LifRunEnd \/ LifSetT \/ LifSetDt \/ LifKeep
    \/ ChRunStart \/ ChRunStep \/ ChRunEnd \/ ChKeep

SpecKeep == InitKeep /\ [][NextKeep]_vars

(***************************************************************************)
(* Properties                                                              *)
(***************************************************************************)

\* C1: in a stored Izhikevich trajectory, a sample with V[k] >= 30 that has a
\* successor is followed by V[k+1] = c and U[k+1] = U[k] + d.
C1_SampleAfterSpikeIsReset ==
    izh.pc = "done" =>
        \A k \in 1..(Len(izh.V) - 1) :
            izh.V[k] >= IzhThreshold =>
                /\ izh.V[k + 1] = izh.c
                /\ izh.U[k + 1] = izh.U[k] + izh.d

\* samples of V already written by the running or finished loop
LifWritten == IF lif.pc \in {"loop", "done"} THEN lif.idx ELSE 0

\* between two consecutive resets the sampled voltage of the leaky
\* integrate-and-fire model strictly increases from one sample to the next
LifIncreasesBetweenResets ==
    \A k \in 1..(LifWritten - 1) :
        ~LifFires(lif, lif.V[k]) => lif.V[k + 1] > lif.V[k]

\* C2: between resets the sampled voltage strictly increases, and right after
\* any sample with V[k] >= theta (V[k] = theta included) the next sample
\* equals the resting potential VR.
C2_ResetAtOrAboveThreshold ==
    /\ LifIncreasesBetweenResets
    /\ \A k \in 1..(LifWritten - 1) :
           lif.V[k] >= lif.theta => lif.V[k + 1] = lif.VR

\* C3: once a run has completed, the time grid and every stored state series
\* have the same length, whatever run calls and assignments to the horizon
\* and step attributes follow (every model).
C3_GridAndSeriesSameLength ==
    /\ lif.pc = "done" => Len(lif.V) = LifTvecLen(lif)
    /\ rk.pc = "done" => Len(rk.x) = RkTvecLen(rk) /\ Len(rk.y) = RkTvecLen(rk)
    /\ ch.pc = "done" => Len(ch.x) = ch.tvecLen /\ Len(ch.y) = ch.tvecLen
    /\ izh.pc = "done" => Len(izh.V) = Len(izh.tvec) /\ Len(izh.U) = Len(izh.tvec)
    /\ (ode.pc = "idle" /\ ode.hasOut) =>
           \A j \in 1..OdeDim(ode) : Len(OdeSeries(ode, j)) = OdeTvec(ode).len

\* C4: on an instance whose parameters the caller never reassigns, two run
\* calls with identical arguments (both may omit the drive) produce identical
\* trajectories, whatever run calls were made in between.
C4_SameArgumentsSameTrajectory ==
    (/\ ode.pc = "idle"
     /\ ~ode.reassigned
     /\ \A k \in 1..Len(ode.log) : ode.log[k].err = "none")
        => \A i, j \in 1..Len(ode.log) :
               ode.log[i].args = ode.log[j].args => ode.log[i].out = ode.log[j].out

\* C5: after a run of a discrete map, sample 0 is the initial state and every
\* later sample up to the last index is the update rule applied to the sample
\* before it.
C5_EverySampleFollowsRule ==
    /\ rk.pc = "done" =>
           /\ rk.x[1] = rk.x0
           /\ rk.y[1] = rk.y0
           /\ \A t \in 2..Len(rk.x) :
                  /\ rk.x[t] = RkNextX(rk, rk.x[t - 1], rk.y[t - 1])
                  /\ rk.y[t] = RkNextY(rk, rk.x[t - 1], rk.y[t - 1])
    /\ ch.pc = "done" =>
           /\ ch.x[1] = ch.X0[1]
           /\ ch.y[1] = ch.X0[2]
           /\ \A t \in 2..Len(ch.x) :
                  /\ ch.x[t] = ChNextX(ch, ch.x[t - 1], ch.y[t - 1])
                  /\ ch.y[t] = ChNextY(ch, ch.x[t - 1], ch.y[t - 1])

\* C6: a run of a discrete map with horizon T and unit step builds a time
\* grid of exactly T points (RulkovMap.run and ChialvoMap.run).
C6_GridHasHorizonPoints ==
    /\ rk.pc = "loop" => RkTvecLen(rk) = rk.time /\ Len(rk.x) = rk.time
    /\ ch.pc = "loop" => ch.tvecLen = ch.t /\ Len(ch.x) = ch.t

\* C7: a run called with an initial state whose length is not the model's
\* dimensionality fails with DimensionMismatchError and leaves the stored
\* outputs and time grid of the model as they were.
C7_WrongLengthIsRejected ==
    /\ (ch.pc \in {"loop", "done", "failed"} /\ Len(ch.X0) # 2) =>
           /\ ch.err = "DimensionMismatchError"
           /\ ChStored(ch) = ch.prev[1]
    /\ (izh.pc \in {"solve", "done", "failed"} /\ Len(izh.Y0) # 2) =>
           /\ izh.err = "DimensionMismatchError"
           /\ IzhStored(izh) = izh.prev[1]
    /\ (ode.pc = "idle" /\ ode.kind # "FHN") =>
           \A i \in 1..Len(ode.log) :
               Len(ode.log[i].args[1]) # OdeDim(ode) =>
                   /\ ode.log[i].err = "DimensionMismatchError"
                   /\ ode.log[i].out = ode.log[i].outBefore
                   /\ ode.log[i].hasOut = ode.log[i].hadOut

\* C8: an evaluation of the system equations leaves the state vector passed to
\* it unchanged; in particular Izhikevich._systems_equations does not modify
\* its argument X.
C8_EvaluateLeavesArgument ==
    izh.pc # "absent" =>
        \A i \in 1..Len(izh.calls) : izh.calls[i].after = izh.calls[i].before

\* C9: a run call, with or without an explicit drive, leaves every parameter
\* attribute of the model, the stored external current included, as it was.
C9_RunLeavesParameters ==
    ode.pc = "idle" =>
        \A i \in 1..Len(ode.log) :
            ode.log[i].err = "none" => ode.log[i].pAfter = ode.log[i].pBefore

\* C10: the Izhikevich reset is applied only to accepted integration states
\* with V >= 30 (never to a trial state or a rejected candidate), the
\* integration resumes from the reset state, and the run ends when the
\* horizon is exhausted.
C10_ResetOnlyOnAcceptedStates ==
    izh.pc # "absent" =>
        /\ \A i \in 1..Len(izh.calls) :
               izh.calls[i].reset =>
                   /\ izh.calls[i].accepted
                   /\ izh.calls[i].before[1] >= IzhThreshold
                   /\ izh.calls[i].after = <<izh.c, izh.calls[i].before[2] + izh.d>>
                   /\ izh.sy = izh.calls[i].after
        /\ izh.pc = "done" => izh.tvec[Len(izh.tvec)] = izh.tb

\* C11: a model whose capacitance or resistance is not positive is never
\* constructed (construction fails with InvalidParameterError), so no
\* instance holds such a parameter and no run of an instance ends in an error
\* caused by it.
C11_InvalidParameterFailsAtConstruction ==
    lif.pc # "absent" =>
        /\ lif.C > 0
        /\ lif.R > 0
        /\ lif.err # "ZeroDivisionError"

\* C12: a run with horizon <= 0, or with a step outside 0 < step <= horizon,
\* fails with InvalidHorizonError before anything is allocated or iterated:
\* no loop is entered with such a horizon and no other error is raised.
C12_InvalidHorizonIsRejected ==
    /\ lif.pc = "loop" => (lif.t > 0 /\ 0 < lif.dt /\ lif.dt <= lif.t)
    /\ rk.pc = "loop" => rk.time >= 1
    /\ rk.pc = "failed" => (rk.err = "InvalidHorizonError" /\ ~rk.hasXY)
    /\ ch.pc = "loop" => ch.t >= 1

\* C13: an array of a finished run that the caller keeps a reference to (the
\* voltage series of LeakyIntegrateAndFire; the time grid and both state
\* series of ChialvoMap) shows the contents it had when the reference was
\* taken, whatever runs of the same object follow.
C13_KeptTrajectoryUnchanged ==
    /\ lif.pc # "absent" => lif.held.now = lif.held.seen
    /\ ch.pc # "absent" =>
           \A k \in {"tvec", "x", "y"} : ch.held[k].now = ch.held[k].seen

\* C13 (reached): a later run has finished and stored a different voltage
\* series while the caller still holds the series of an earlier run
C13_KeptThenRunAgain ==
    /\ lif.pc = "done"
    /\ lif.held.id # 0
    /\ lif.held.id # lif.Vid
    /\ lif.V # lif.held.seen
    /\ Len(lif.V) = Len(lif.held.seen)

\* C14: HodgkinHuxley.system_equations returns a finite value for every
\* component on every state, the voltages -40 and -55 included.
C14_NoDivisionByZero ==
    (ode.pc = "idle" /\ ode.kind = "HH") =>
        \A i \in 1..Len(ode.eval) : ode.eval[i].nonfinite = {}

\* C15: after construction every parameter attribute equals the value passed
\* under its own keyword, or its default when the keyword was omitted
\* (RulkovMap: x0 from x0 and y0 from y0).
C15_ConstructionRoundTrips ==
    rk.pc # "absent" =>
        /\ rk.alpha = Get(rk.kw, "alpha", 600)
        /\ rk.mu = Get(rk.kw, "mu", 10)
        /\ rk.sigma = Get(rk.kw, "sigma", 30)
        /\ rk.x0 = Get(rk.kw, "x0", 0)
        /\ rk.y0 = Get(rk.kw, "y0", 0)

=============================================================================
